---- MODULE Spec2Model ----
(***************************************************************************)
(* ASCEND YouTube player backend: the five successive versions of the      *)
(* Express server (src/index.js, src/unnamed/part_000, the two servers in  *)
(* src/unnamed/part_001, src/unnamed/part_003), modelled as one state      *)
(* machine whose `version` is fixed by Init.                               *)
(*                                                                         *)
(* Strings are sequences of tokens.  A token is one character ("a", ".",   *)
(* "/", "-", "0") or a fixed multi-character string that the code treats   *)
(* as a unit ("bytes=", a URL prefix, the eight hex digits of a random     *)
(* suffix).  Time is counted in milliseconds as in the code.               *)
(***************************************************************************)
EXTENDS Integers, Sequences, FiniteSets, TLC

VARIABLES
    version,    \* which server file is running
    proc,       \* the process: [state, exitCode, serverClosed]
    now,        \* Date.now()
    files,      \* the temp directory: file name -> [mtime, size, complete]
    reqs,       \* request slot -> the request being handled and its response
    cl,         \* the cleanup timer and the position of its callbacks
    rt,         \* one invocation of retryWithBackoff
    call        \* one application of a helper function: [fn, arg, pc, result]

vars == <<version, proc, now, files, reqs, cl, rt, call>>

-----------------------------------------------------------------------------
(* Bounds of the model *)

MaxReq == 2          \* request slots (requests in flight at once)
MaxSize == 3         \* largest file size in bytes
MaxRangeLen == 4     \* tokens of a Range header after an optional "bytes="
MaxTimeCleanup == 13 \* timer periods the clock of SpecCleanup may advance
MaxRetries == 3      \* largest maxRetries given to retryWithBackoff
MaxWrites == 2       \* writes a converter makes to its output file
MaxNameLen == 3      \* characters of an arbitrary file name asked of /stream
MaxFiles == 2        \* files in the directory when a download may still start
MaxAffix == 1        \* characters around the URL given to extractVideoId
MaxSeconds == 36070  \* longest duration given to formatDuration

Reqs == 1..MaxReq

-----------------------------------------------------------------------------
(* The versions *)

V_INDEX == "index_js"     \* src/index.js: ytdl-core + ffmpeg, saves to temp
V_DIRECT == "part_000"    \* src/unnamed/part_000: streams /play directly
V_CACHE == "part_001a"    \* src/unnamed/part_001 lines 1-345: adds the cache check
V_RETRY == "part_003"     \* src/unnamed/part_003: adds retries and user agents
V_YTDLP == "part_001b"    \* src/unnamed/part_001 lines 347-809: yt-dlp

Versions == {V_INDEX, V_DIRECT, V_CACHE, V_RETRY, V_YTDLP}

\* versions that create TEMP_DIR, run the cleanup timer and serve /stream
TempVersions == {V_INDEX, V_CACHE, V_RETRY, V_YTDLP}

\* versions whose /play checks the temp directory for an existing file first
CachingVersions == {V_CACHE, V_RETRY, V_YTDLP}

-----------------------------------------------------------------------------
(* Strings *)

\* number of characters a token stands for
TokLen(t) ==
    CASE t = "bytes=" -> 6
      [] t = "youtube.com/watch?v=" -> 20
      [] t = "youtu.be/" -> 9
      [] t = "youtube.com/embed/" -> 18
      [] t = "youtube.com/v/" -> 14
      [] t = "youtube.com/shorts/" -> 19
      [] t = "music." -> 6
      [] t = "m." -> 2
      [] t \in {"h1", "h2"} -> 8
      [] OTHER -> 1

RECURSIVE StrLen(_)
StrLen(s) == IF s = <<>> THEN 0 ELSE TokLen(Head(s)) + StrLen(Tail(s))

\* String.prototype.includes for a single-token needle
Includes(s, t) == \E i \in 1..Len(s) : s[i] = t

\* String.prototype.includes('..')
IncludesDotDot(s) == \E i \in 1..(Len(s) - 1) : s[i] = "." /\ s[i + 1] = "."

\* String.prototype.startsWith
StartsWith(s, p) == Len(p) <= Len(s) /\ SubSeq(s, 1, Len(p)) = p

\* index of the first occurrence of token t in s, 0 when there is none
FirstIndex(s, t) ==
    IF Includes(s, t) THEN CHOOSE i \in 1..Len(s) : s[i] = t /\ \A j \in 1..(i - 1) : s[j] # t
    ELSE 0

\* String.prototype.split(sep) for a single-token separator
RECURSIVE Split(_, _)
Split(s, sep) ==
    LET i == FirstIndex(s, sep)
    IN  IF i = 0 THEN <<s>>
        ELSE <<SubSeq(s, 1, i - 1)>> \o Split(SubSeq(s, i + 1, Len(s)), sep)

\* String.prototype.replace(/bytes=/, ''): drops the first occurrence
ReplaceFirst(s, t) ==
    LET i == FirstIndex(s, t)
    IN  IF i = 0 THEN s ELSE SubSeq(s, 1, i - 1) \o SubSeq(s, i + 1, Len(s))

Digits == {"0", "1", "2", "3", "4", "5", "6", "7", "8", "9"}

DigitVal(t) ==
    CASE t = "0" -> 0 [] t = "1" -> 1 [] t = "2" -> 2 [] t = "3" -> 3 [] t = "4" -> 4
      [] t = "5" -> 5 [] t = "6" -> 6 [] t = "7" -> 7 [] t = "8" -> 8 [] t = "9" -> 9

\* a JavaScript number that may be NaN
NaN == [nan |-> TRUE, v |-> 0]
Num(n) == [nan |-> FALSE, v |-> n]

RECURSIVE DigitsValue(_, _)
DigitsValue(s, acc) ==
    IF s = <<>> \/ Head(s) \notin Digits THEN acc
    ELSE DigitsValue(Tail(s), 10 * acc + DigitVal(Head(s)))

\* parseInt(s, 10) on a string without sign or white space: the value of the
\* leading decimal digits, NaN when the string does not start with a digit
ParseInt(s) ==
    IF s = <<>> \/ Head(s) \notin Digits THEN NaN ELSE Num(DigitsValue(s, 0))

-----------------------------------------------------------------------------
(* Paths below TEMP_DIR *)

\* a normalised path relative to TEMP_DIR: `up` leading ".." and the segments
TempDirPath == [up |-> 0, segs |-> <<>>]

RECURSIVE NormSegs(_, _)
NormSegs(parts, acc) ==
    IF parts = <<>> THEN acc
    ELSE LET p == Head(parts)
         IN  IF p = <<>> \/ p = <<".">> THEN NormSegs(Tail(parts), acc)
             ELSE IF p = <<".", ".">>
                  THEN IF acc.segs = <<>>
                       THEN NormSegs(Tail(parts), [acc EXCEPT !.up = @ + 1])
                       ELSE NormSegs(Tail(parts),
                                     [acc EXCEPT !.segs = SubSeq(@, 1, Len(@) - 1)])
             ELSE NormSegs(Tail(parts), [acc EXCEPT !.segs = Append(@, p)])

\* path.join(TEMP_DIR, filename) on POSIX: "/" separates, "." and ".." are
\* resolved, a backslash is an ordinary character
PathJoin(filename) == NormSegs(Split(filename, "/"), TempDirPath)

IsTempDir(p) == p.up = 0 /\ p.segs = <<>>
IsDirectChild(p) == p.up = 0 /\ Len(p.segs) = 1

-----------------------------------------------------------------------------
(* Requests and responses *)

NoHead == [contentRange |-> <<>>, contentLength |-> -1, acceptRanges |-> "",
           contentType |-> "", cacheControl |-> ""]

\* a free request slot; the fields after `range` are the handler's locals and
\* what it has done and answered so far
IdleReq ==
    [kind |-> "none", pc |-> "idle", input |-> <<>>, range |-> <<>>,
     handler |-> "", videoId |-> <<>>, filename |-> <<>>, matches |-> {},
     status |-> 0, error |-> "", success |-> FALSE, url |-> <<>>, head |-> NoHead,
     accessed |-> {}, readFrom |-> {}, pipe |-> "none",
     ext |-> 0, downloads |-> 0, created |-> {}, deleted |-> {}, writes |-> 0,
     conv |-> "none", fd |-> "none", phase |-> "", srcErr |-> FALSE,
     headersSent |-> FALSE]

\* res.status(code).json({ error: msg })
JsonError(q, code, msg) == [q EXCEPT !.pc = "done", !.status = code, !.error = msg]

\* the endpoints the root endpoint lists
Advertised(v) ==
    IF v \in {V_RETRY, V_YTDLP} THEN {"search", "play", "stream", "health"}
    ELSE {"search", "play", "stream"}

\* the endpoints the version registers a handler for with app.get
Routes(v) ==
    IF v = V_DIRECT THEN {"root", "search", "play", "health"}
    ELSE {"root", "search", "play", "stream", "health"}

\* a request no route matches: the 404 handler of part_003 and the yt-dlp
\* version, Express's own 404 in the other versions
Unrouted(q) ==
    [q EXCEPT !.pc = "done", !.handler = "none", !.status = 404,
              !.error = IF version \in {V_RETRY, V_YTDLP} THEN "Endpoint not found"
                        ELSE "Cannot GET"]

\* the error-handling middleware, reached when a handler throws synchronously
ErrorMiddleware(q) == JsonError(q, 500, "Internal server error")

-----------------------------------------------------------------------------
(* GET /stream/:filename *)

\* the security check of the stream handler
IsTraversal_NoSlash(filename) ==
    IncludesDotDot(filename) \/ Includes(filename, "\\")

IsTraversal(filename) ==
    IncludesDotDot(filename) \/ Includes(filename, "/") \/ Includes(filename, "\\")

\* fs.existsSync(filepath): TEMP_DIR itself exists, a direct child exists when
\* the directory holds it, TEMP_DIR has no subdirectories, and its parent exists
ExistsSync(p) ==
    IF IsTempDir(p) THEN TRUE
    ELSE IF IsDirectChild(p) THEN p.segs[1] \in DOMAIN files
    ELSE p.up > 0

\* const parts = range.replace(/bytes=/, '').split('-')
RangeParts(range) == Split(ReplaceFirst(range, "bytes="), "-")

\* const start = parseInt(parts[0], 10)
RangeStart(range) == ParseInt(RangeParts(range)[1])

\* const end = parts[1] ? parseInt(parts[1], 10) : fileSize - 1
RangeEnd(range, fileSize) ==
    LET parts == RangeParts(range)
    IN  IF Len(parts) >= 2 /\ parts[2] # <<>> THEN ParseInt(parts[2])
        ELSE Num(fileSize - 1)

\* const chunksize = (end - start) + 1
ChunkSize_OffByOne(start, end) == end - start

ChunkSize(start, end) == (end - start) + 1

\* fs.createReadStream(filepath, { start, end }) throws ERR_OUT_OF_RANGE unless
\* start and end are integers >= 0 with start <= end
ReadStreamThrows(start, end) ==
    \/ start.nan \/ start.v < 0
    \/ end.nan \/ end.v < 0
    \/ start.v > end.v

NotFoundMessage ==
    IF version \in {V_RETRY, V_YTDLP}
    THEN "Audio file not found. It may have been cleaned up."
    ELSE "Audio file not found"

CacheControl == IF version \in {V_RETRY, V_YTDLP} THEN "public, max-age=3600" ELSE ""

\* the handler from the existence check on; fileSize is stat.size
StreamFound(q, filepath, fileSize) ==
    LET q1    == [q EXCEPT !.accessed = {filepath}]
        start == RangeStart(q.range)
        end   == RangeEnd(q.range, fileSize)
        piped == [q1 EXCEPT !.pc = "done",
                            !.pipe = IF IsDirectChild(filepath) THEN "file" ELSE "eisdir",
                            !.readFrom = IF IsDirectChild(filepath) THEN {filepath} ELSE {}]
    IN  IF q.range # <<>>
        THEN IF ReadStreamThrows(start, end) THEN ErrorMiddleware(q1)
             ELSE [piped EXCEPT !.status = 206,
                        !.head = [contentRange |-> <<start.v, end.v, fileSize>>,
                                  contentLength |-> ChunkSize(start.v, end.v),
                                  acceptRanges |-> "bytes",
                                  contentType |-> "audio/mpeg",
                                  cacheControl |-> CacheControl]]
        ELSE [piped EXCEPT !.status = 200,
                   !.head = [contentRange |-> <<>>,
                             contentLength |-> fileSize,
                             acceptRanges |-> "bytes",
                             contentType |-> "audio/mpeg",
                             cacheControl |-> CacheControl]]

\* the whole handler; dirSize is what stat.size reports for a directory
StreamHandler(q, dirSize) ==
    LET filepath == PathJoin(q.input)
    IN  IF IsTraversal(q.input) THEN JsonError(q, 400, "Invalid filename")
        ELSE IF ~ExistsSync(filepath)
             THEN JsonError([q EXCEPT !.accessed = {filepath}], 404, NotFoundMessage)
        ELSE StreamFound(q, filepath,
                         IF IsDirectChild(filepath) THEN files[filepath.segs[1]].size
                         ELSE dirSize)

Listening == proc.state = "listening"

Stream(r, filename, range) ==
    /\ Listening
    /\ reqs[r].pc = "idle"
    /\ LET q == [IdleReq EXCEPT !.kind = "stream", !.input = filename, !.range = range,
                                !.handler = "stream"]
       IN  \E dirSize \in {MaxSize} :
               reqs' = [reqs EXCEPT ![r] = IF "stream" \in Routes(version)
                                           THEN StreamHandler(q, dirSize)
                                           ELSE Unrouted(q)]
    /\ UNCHANGED <<call, version, proc, now, files, cl, rt>>

\* the response has been sent and the connection is done with
Release(r) ==
    /\ reqs[r].pc = "done"
    /\ reqs[r].pipe # "eisdir"
    /\ reqs[r].conv # "running"
    /\ reqs' = [reqs EXCEPT ![r] = IdleReq]
    /\ UNCHANGED <<call, version, proc, now, files, cl, rt>>

-----------------------------------------------------------------------------
(* The temp directory *)

\* the directory with no file in it
NoFiles == <<>>

File(mtime, size, complete) == [mtime |-> mtime, size |-> size, complete |-> complete]

\* the directory after a write that creates or replaces `name`
WithFile(dir, name, f) == [n \in DOMAIN dir \cup {name} |-> IF n = name THEN f ELSE dir[n]]

\* the directory after fs.unlink / fs.unlinkSync of the names
Without(dir, names) == [n \in DOMAIN dir \ names |-> dir[n]]

\* `${videoId}_${crypto.randomBytes(4).toString('hex')}`
BaseName(videoId, hex) == videoId \o <<"_", hex>>

\* `${videoId}_${crypto.randomBytes(4).toString('hex')}.mp3`
Mp3Name(videoId, hex) == BaseName(videoId, hex) \o <<".", "m", "p", "3">>

\* the file yt-dlp downloads into before its ffmpeg step writes <base>.mp3
PartName(base) == base \o <<".", "w", "e", "b", "m">>

HexSuffixes == {"h1", "h2"}

-----------------------------------------------------------------------------
(* extractVideoId *)

VIDEO_ID_LEN == 11

IdChars == {"a", "b", "c", "_", "-"} \cup Digits

\* extractVideoId's null
Null == <<>>

\* /^[a-zA-Z0-9_-]+$/.test(s)
AllIdChars(s) == s # <<>> /\ \A i \in 1..Len(s) : s[i] \in IdChars

\* the prefixes of the URL patterns, in the order of the patterns array
UrlPatterns(v) ==
    IF v = V_INDEX
    THEN << {<<"youtube.com/watch?v=">>, <<"youtu.be/">>, <<"youtube.com/embed/">>} >>
    ELSE << {<<"youtube.com/watch?v=">>, <<"youtu.be/">>, <<"youtube.com/embed/">>},
            {<<"music.", "youtube.com/watch?v=">>},
            {<<"m.", "youtube.com/watch?v=">>},
            {<<"youtube.com/v/">>},
            {<<"youtube.com/shorts/">>} >>

\* the pattern's prefix pre followed by ([a-zA-Z0-9_-]{11}) matches at index i
MatchesAt_NoClass(s, i, pre) ==
    /\ i + Len(pre) + VIDEO_ID_LEN - 1 <= Len(s)
    /\ SubSeq(s, i, i + Len(pre) - 1) = pre

MatchesAt(s, i, pre) ==
    /\ i + Len(pre) + VIDEO_ID_LEN - 1 <= Len(s)
    /\ SubSeq(s, i, i + Len(pre) - 1) = pre
    /\ \A k \in 0..(VIDEO_ID_LEN - 1) : s[i + Len(pre) + k] \in IdChars

\* input.match(pattern): the capture group of the leftmost match, Null if none
PatternMatch(s, prefixes) ==
    LET hits == {i \in 1..Len(s) : \E pre \in prefixes : MatchesAt(s, i, pre)}
    IN  IF hits = {} THEN Null
        ELSE LET i   == CHOOSE h \in hits : \A g \in hits : h <= g
                 pre == CHOOSE x \in prefixes : MatchesAt(s, i, x)
             IN  SubSeq(s, i + Len(pre), i + Len(pre) + VIDEO_ID_LEN - 1)

RECURSIVE FirstPatternMatch(_, _)
FirstPatternMatch(s, patterns) ==
    IF patterns = <<>> THEN Null
    ELSE LET hit == PatternMatch(s, Head(patterns))
         IN  IF hit # Null THEN hit ELSE FirstPatternMatch(s, Tail(patterns))

\* the last pattern /^([a-zA-Z0-9_-]{11})$/ repeats the first test
extractVideoId(input) ==
    IF version = V_YTDLP /\ input = <<>> THEN Null
    ELSE IF StrLen(input) = VIDEO_ID_LEN /\ AllIdChars(input) THEN input
    ELSE FirstPatternMatch(input, UrlPatterns(version))

-----------------------------------------------------------------------------
(* The process *)

ProcListening == [state |-> "listening", exitCode |-> -1, serverClosed |-> FALSE,
                  cause |-> "", ytdlpInstalled |-> "unchecked"]

\* the yt-dlp version listens only after startServer's check
ProcStarting(v) ==
    IF v = V_YTDLP THEN [ProcListening EXCEPT !.state = "checking"] ELSE ProcListening

Alive == proc.state # "exited"

\* the process ends: its requests and pending callbacks end with it
Exit(code, cause) ==
    /\ proc' = [proc EXCEPT !.state = "exited", !.exitCode = code, !.cause = cause]
    /\ reqs' = [r \in Reqs |-> IdleReq]
    /\ cl' = [cl EXCEPT !.pc = "idle", !.toStat = {}, !.toUnlink = {}]

\* if (!ytdlpInstalled)
YtDlpMissing_Never(installed) == FALSE
YtDlpMissing(installed) == ~installed

\* startServer: await checkYtDlp(), then exit(1) or app.listen
StartServer(installed) ==
    /\ proc.state = "checking"
    /\ LET p == [proc EXCEPT !.ytdlpInstalled = IF installed THEN "true" ELSE "false"]
       IN  IF YtDlpMissing(installed)
           THEN /\ proc' = [p EXCEPT !.state = "exited", !.exitCode = 1, !.cause = "startup"]
                /\ reqs' = [r \in Reqs |-> IdleReq]
                /\ cl' = [cl EXCEPT !.pc = "idle", !.toStat = {}, !.toUnlink = {}]
           ELSE proc' = [p EXCEPT !.state = "listening"] /\ UNCHANGED <<reqs, cl>>
    /\ UNCHANGED <<call, version, now, files, rt>>

\* `server` in the SIGTERM handler of src/index.js: app.listen's result is
\* never assigned, so the name is not defined
ServerDefined(v) == v # V_INDEX

\* process.on('SIGTERM'): src/index.js evaluates server.close, which throws a
\* ReferenceError out of the signal listener (uncaught: exit code 1); the
\* other versions call process.exit(0)
Sigterm ==
    /\ Alive
    /\ IF version = V_INDEX
       THEN IF ServerDefined(version)
            THEN /\ proc' = [proc EXCEPT !.state = "exited", !.exitCode = 0,
                                         !.serverClosed = TRUE, !.cause = "SIGTERM"]
                 /\ reqs' = [r \in Reqs |-> IdleReq]
                 /\ cl' = [cl EXCEPT !.pc = "idle", !.toStat = {}, !.toUnlink = {}]
            ELSE Exit(1, "SIGTERM")
       ELSE Exit(0, "SIGTERM")
    /\ UNCHANGED <<call, version, now, files, rt>>

\* process.on('SIGINT') of part_003 and the yt-dlp version
Sigint ==
    /\ Alive
    /\ version \in {V_RETRY, V_YTDLP}
    /\ Exit(0, "SIGINT")
    /\ UNCHANGED <<call, version, now, files, rt>>

\* the read stream of a directory emits 'error' (EISDIR); nothing listens for
\* it, so the exception is uncaught and the process dies
ReadStreamError(r) ==
    /\ Alive
    /\ reqs[r].pipe = "eisdir"
    /\ Exit(1, "EISDIR")
    /\ UNCHANGED <<call, version, now, files, rt>>

-----------------------------------------------------------------------------
(* The cleanup timer *)

CLEANUP_INTERVAL_MS == 600000
ONE_HOUR_MS == 3600000
TWO_HOURS_MS == 7200000

\* the age above which the timer deletes a file
MaxAge_Doubled(v) == 2 * (IF v = V_INDEX THEN ONE_HOUR_MS ELSE TWO_HOURS_MS)
MaxAge(v) == IF v = V_INDEX THEN ONE_HOUR_MS ELSE TWO_HOURS_MS

\* now - stats.mtimeMs > threshold
IsOld(runNow, mtime) == runNow - mtime > MaxAge(version)

ClIdle == [pc |-> "idle", lastFire |-> 0, runNow |-> 0,
           toStat |-> {}, toUnlink |-> {}, snap |-> <<>>, runs |-> 0,
           last |-> <<>>]

\* a run is over once no stat and no unlink of it is outstanding
Settle(c) ==
    IF c.pc = "stat" /\ c.toStat = {} /\ c.toUnlink = {} THEN [c EXCEPT !.pc = "idle"]
    ELSE c

TimerDue == now - cl.lastFire >= CLEANUP_INTERVAL_MS

\* the setInterval callback: const now = Date.now(); fs.readdir(TEMP_DIR, ...)
\* (snap keeps the mtimes at the start of the run, for the claims)
CleanupFire ==
    /\ Alive
    /\ version \in TempVersions
    /\ TimerDue
    /\ cl.pc = "idle"
    /\ cl' = [cl EXCEPT !.pc = "readdir", !.lastFire = now, !.runNow = now,
                        !.snap = [n \in DOMAIN files |-> files[n].mtime],
                        !.runs = IF @ < 2 THEN @ + 1 ELSE @, !.last = <<>>]
    /\ UNCHANGED <<call, version, proc, now, files, reqs, rt>>

\* the readdir callback: files.forEach(file => fs.stat(filePath, ...))
CleanupReaddir ==
    /\ Alive
    /\ cl.pc = "readdir"
    /\ cl' = Settle([cl EXCEPT !.pc = "stat", !.toStat = DOMAIN files])
    /\ UNCHANGED <<call, version, proc, now, files, reqs, rt>>

\* the stat callback for one file: if (err) return; if old, fs.unlink
CleanupStat(f) ==
    /\ Alive
    /\ cl.pc = "stat"
    /\ f \in cl.toStat
    /\ cl' = Settle([cl EXCEPT !.toStat = @ \ {f},
                               !.toUnlink = IF f \in DOMAIN files
                                               /\ IsOld(cl.runNow, files[f].mtime)
                                            THEN @ \cup {f} ELSE @])
    /\ UNCHANGED <<call, version, proc, now, files, reqs, rt>>

\* fs.unlink(filePath, () => {}) taking effect
\* (last keeps the name and mtime of the file it removed, for the claims)
CleanupUnlink(f) ==
    /\ Alive
    /\ cl.pc = "stat"
    /\ f \in cl.toUnlink
    /\ files' = Without(files, {f})
    /\ cl' = Settle([cl EXCEPT !.toUnlink = @ \ {f},
                               !.last = IF f \in DOMAIN files
                                        THEN <<f, files[f].mtime>> ELSE <<>>])
    /\ UNCHANGED <<call, version, proc, now, reqs, rt>>

-----------------------------------------------------------------------------
(* GET /play *)

Upd(r, q) == reqs' = [reqs EXCEPT ![r] = q]

\* if (!videoId) / if (!query) / if (!input)
MissingParam_Never(x) == FALSE
MissingParam(x) == x = <<>>

\* fs.readdirSync(TEMP_DIR).filter(f => f.startsWith(videoId))
ExistingFiles(videoId) ==
    IF version \in CachingVersions
    THEN {f \in DOMAIN files : StartsWith(f, videoId)}
    ELSE {}

\* if (existingFiles.length > 0)
CacheHit_Never(existingFiles) == FALSE
CacheHit(existingFiles) == existingFiles # {}

\* res.json({ success: true, url: streamUrl, ... })
JsonSuccess(q, name) ==
    [q EXCEPT !.pc = "done", !.status = 200, !.success = TRUE, !.url = name]

\* ffmpegProcess.pipe(res, { end: true }) instead of .save(filepath)
Pipes_Never(v) == FALSE
Pipes(v) == v = V_DIRECT

\* the name the attempt saves to: none when streaming directly, the base name
\* (yt-dlp adds .mp3) in the yt-dlp version, <id>_<hex>.mp3 otherwise
GeneratedName(videoId, hex) ==
    CASE Pipes(version) -> <<>>
      [] version = V_YTDLP -> BaseName(videoId, hex)
      [] OTHER -> Mp3Name(videoId, hex)

\* the names the attempt of q may write
OutputNames(q) ==
    CASE q.filename = <<>> -> {}
      [] version = V_YTDLP -> {PartName(q.filename), q.filename \o <<".", "m", "p", "3">>}
      [] OTHER -> {q.filename}

\* crypto.randomBytes(4) does not repeat a name that is in use
FreshName(name) ==
    name # <<>> =>
        /\ \A f \in DOMAIN files : ~StartsWith(f, name)
        /\ \A r \in Reqs : reqs[r].filename # name

\* the directory has room for the files of one more download
Room == Cardinality(DOMAIN files) < MaxFiles

\* the handler up to its first await
PlayBegin(q0, hex) ==
    IF MissingParam(q0.input)
    THEN JsonError(q0, 400, IF version = V_YTDLP THEN "Video ID or URL is required"
                            ELSE "Video ID is required")
    ELSE LET videoId == IF version = V_YTDLP THEN extractVideoId(q0.input) ELSE q0.input
         IN  IF videoId = Null THEN JsonError(q0, 400, "Invalid video ID or URL")
             ELSE [q0 EXCEPT !.videoId = videoId,
                             !.matches = ExistingFiles(videoId),
                             !.filename = GeneratedName(videoId, hex),
                             !.pc = "info"]

\* the cache branch: existingFiles[0] is whichever match readdir lists first
PlayFromCache(q, first) ==
    IF version = V_YTDLP
    THEN [q EXCEPT !.pc = "cachedInfo", !.filename = <<>>, !.url = first, !.ext = 1]
    ELSE JsonSuccess([q EXCEPT !.filename = <<>>], first)

\* slots are interchangeable: a new request takes the lowest free one
FreeSlot(r) == reqs[r].pc = "idle" /\ \A o \in Reqs : o < r => reqs[o].pc # "idle"

Play(r, input, hex) ==
    /\ Listening
    /\ FreeSlot(r)
    /\ LET q0 == [IdleReq EXCEPT !.kind = "play", !.input = input, !.handler = "play"]
           q  == PlayBegin(q0, hex)
       IN  IF q.pc = "info" /\ CacheHit(q.matches)
           THEN \E first \in q.matches : Upd(r, PlayFromCache(q, first))
           ELSE IF q.pc = "info"
                THEN FreshName(q.filename) /\ Room /\ Upd(r, [q EXCEPT !.ext = 1])
                ELSE Upd(r, q)
    /\ UNCHANGED <<call, version, proc, now, files, cl, rt>>

\* the yt-dlp version's getVideoInfo on a cache hit settles: either way the
\* cached URL is returned
PlayCachedInfo(r) ==
    /\ Alive
    /\ reqs[r].kind = "play" /\ reqs[r].pc = "cachedInfo"
    /\ Upd(r, JsonSuccess(reqs[r], reqs[r].url))
    /\ UNCHANGED <<call, version, proc, now, files, cl, rt>>

\* the answer when no info could be fetched
InfoFailed(q) ==
    IF version = V_INDEX THEN JsonError(q, 500, "Failed to process video")
    ELSE JsonError(q, 404, "Video unavailable")

\* ytdl(videoId, ...) piped into ffmpeg, or yt-dlp: the transfer starts
StartDownload(q) ==
    [q EXCEPT !.pc = IF Pipes(version) THEN "piping" ELSE "conv",
              !.conv = "running", !.downloads = @ + 1,
              !.phase = IF version = V_YTDLP THEN "dl" ELSE ""]

\* getInfo / getVideoInfo (with its fallbacks and retries) settles
PlayInfo(r, ok) ==
    /\ Alive
    /\ reqs[r].kind = "play" /\ reqs[r].pc = "info"
    /\ Upd(r, IF ok THEN StartDownload(reqs[r]) ELSE InfoFailed(reqs[r]))
    /\ UNCHANGED <<call, version, proc, now, files, cl, rt>>

Min(a, b) == IF a <= b THEN a ELSE b

\* one write of the converter to `name`: the first creates the file, later
\* ones grow it; after an unlink the open descriptor writes to no visible file
Written(q, name) ==
    IF name \in q.created
    THEN IF name \in DOMAIN files
         THEN WithFile(files, name, File(now, Min(files[name].size + 1, MaxSize), FALSE))
         ELSE files
    ELSE WithFile(files, name, File(now, 1, FALSE))

\* ffmpeg(...).save(filepath) writing its output
ConvWrite(r) ==
    LET q == reqs[r]
    IN  /\ Alive
        /\ ~Pipes(version) /\ version # V_YTDLP
        /\ q.conv = "running"
        /\ q.writes < MaxWrites
        /\ files' = Written(q, q.filename)
        /\ Upd(r, [q EXCEPT !.writes = @ + 1, !.created = @ \cup {q.filename}])
        /\ UNCHANGED <<call, version, proc, now, cl, rt>>

Completed(dir, name) ==
    IF name \in DOMAIN dir THEN [dir EXCEPT ![name].complete = TRUE] ELSE dir

\* the catch of the download block: unlink what the attempt left, answer 500
\* (src/index.js has only the outer catch, which unlinks nothing)
DownloadFailedFiles(q) ==
    CASE version = V_INDEX -> {}
      [] version = V_YTDLP -> {f \in DOMAIN files : StartsWith(f, q.filename)}
      [] OTHER -> {q.filename} \cap DOMAIN files

DownloadFailed(q) ==
    IF version = V_INDEX THEN JsonError(q, 500, "Failed to process video")
    ELSE JsonError([q EXCEPT !.deleted = @ \cup DownloadFailedFiles(q)],
                   500, "Download failed")

\* ffmpeg's 'end': the promise resolves and the handler answers (part_003
\* first verifies that the file exists); after a timeout nobody waits
ConvEnd(r) ==
    LET q == reqs[r]
        q1 == [q EXCEPT !.conv = "dead"]
    IN  /\ Alive
        /\ version \in {V_INDEX, V_CACHE, V_RETRY}
        /\ q.conv = "running"
        /\ q.filename \in q.created
        /\ files' = Completed(files, q.filename)
        /\ Upd(r, IF q.pc # "conv" THEN q1
                  ELSE IF version = V_RETRY /\ q.filename \notin DOMAIN files
                       THEN DownloadFailed(q1)
                  ELSE JsonSuccess(q1, q.filename))
        /\ UNCHANGED <<call, version, proc, now, cl, rt>>

\* ffmpeg's 'error': the promise rejects
ConvError(r) ==
    LET q == reqs[r]
        q1 == [q EXCEPT !.conv = "dead"]
    IN  /\ Alive
        /\ version \in {V_INDEX, V_CACHE, V_RETRY}
        /\ q.conv = "running"
        /\ files' = IF q.pc = "conv" THEN Without(files, DownloadFailedFiles(q)) ELSE files
        /\ Upd(r, IF q.pc = "conv" THEN DownloadFailed(q1) ELSE q1)
        /\ UNCHANGED <<call, version, proc, now, cl, rt>>

\* the setTimeout of the download promise rejects it; ffmpeg is not stopped
ConvTimeout(r) ==
    LET q == reqs[r]
    IN  /\ Alive
        /\ version \in {V_CACHE, V_RETRY}
        /\ q.pc = "conv"
        /\ files' = Without(files, DownloadFailedFiles(q))
        /\ Upd(r, DownloadFailed(q))
        /\ UNCHANGED <<call, version, proc, now, cl, rt>>

\* part_003: audioStream.on('error') unlinks the file if it exists
AudioStreamError(r) ==
    LET q == reqs[r]
    IN  /\ Alive
        /\ version = V_RETRY
        /\ q.conv = "running"
        /\ ~q.srcErr
        /\ files' = Without(files, {q.filename})
        /\ Upd(r, [q EXCEPT !.srcErr = TRUE,
                            !.deleted = @ \cup ({q.filename} \cap DOMAIN files)])
        /\ UNCHANGED <<call, version, proc, now, cl, rt>>

\* yt-dlp downloading into its intermediate file
DlWrite(r) ==
    LET q == reqs[r]
        part == PartName(q.filename)
    IN  /\ Alive
        /\ version = V_YTDLP
        /\ q.conv = "running" /\ q.phase = "dl"
        /\ q.writes < MaxWrites
        /\ files' = Written(q, part)
        /\ Upd(r, [q EXCEPT !.writes = @ + 1, !.created = @ \cup {part}])
        /\ UNCHANGED <<call, version, proc, now, cl, rt>>

\* yt-dlp's ffmpeg step starts writing <base>.mp3
DlPostProcess(r) ==
    LET q == reqs[r]
        mp3 == q.filename \o <<".", "m", "p", "3">>
    IN  /\ Alive
        /\ version = V_YTDLP
        /\ q.conv = "running" /\ q.phase = "dl"
        /\ PartName(q.filename) \in q.created
        /\ files' = Written(q, mp3)
        /\ Upd(r, [q EXCEPT !.phase = "pp", !.created = @ \cup {mp3}])
        /\ UNCHANGED <<call, version, proc, now, cl, rt>>

\* yt-dlp exits 0: the mp3 is complete and the intermediate file removed;
\* downloadAudio returns and the handler checks that <base>.mp3 exists
DlEnd(r) ==
    LET q == reqs[r]
        mp3 == q.filename \o <<".", "m", "p", "3">>
        dir == Without(Completed(files, mp3), {PartName(q.filename)})
        q1 == [q EXCEPT !.conv = "dead"]
    IN  /\ Alive
        /\ version = V_YTDLP
        /\ q.conv = "running" /\ q.phase = "pp"
        /\ IF mp3 \in DOMAIN dir
           THEN files' = dir /\ Upd(r, JsonSuccess(q1, mp3))
           ELSE /\ files' = Without(dir, {f \in DOMAIN dir : StartsWith(f, q.filename)})
                /\ Upd(r, [DownloadFailed(q1) EXCEPT
                              !.deleted = q.deleted \cup
                                  {f \in DOMAIN dir : StartsWith(f, q.filename)}])
        /\ UNCHANGED <<call, version, proc, now, cl, rt>>

\* yt-dlp fails or is killed by exec's timeout: downloadAudio throws
DlError(r) ==
    LET q == reqs[r]
    IN  /\ Alive
        /\ version = V_YTDLP
        /\ q.conv = "running"
        /\ files' = Without(files, DownloadFailedFiles(q))
        /\ Upd(r, DownloadFailed([q EXCEPT !.conv = "dead"]))
        /\ UNCHANGED <<call, version, proc, now, cl, rt>>

\* part_000: ffmpeg pipes into the response; the first chunk sends the headers
PipeData(r) ==
    LET q == reqs[r]
    IN  /\ Alive
        /\ version = V_DIRECT
        /\ q.pc = "piping" /\ ~q.headersSent
        /\ Upd(r, [q EXCEPT !.headersSent = TRUE, !.status = 200,
                            !.head = [NoHead EXCEPT !.acceptRanges = "bytes",
                                                    !.contentType = "audio/mpeg"]])
        /\ UNCHANGED <<call, version, proc, now, files, cl, rt>>

\* part_000: ffmpeg's 'end' closes the response
PipeEnd(r) ==
    LET q == reqs[r]
    IN  /\ Alive
        /\ version = V_DIRECT
        /\ q.pc = "piping" /\ q.headersSent
        /\ Upd(r, [q EXCEPT !.pc = "done", !.conv = "dead"])
        /\ UNCHANGED <<call, version, proc, now, files, cl, rt>>

\* part_000: ffmpeg's 'error': 500 unless the headers have gone out
PipeError(r) ==
    LET q == reqs[r]
        q1 == [q EXCEPT !.conv = "dead", !.pc = "done"]
    IN  /\ Alive
        /\ version = V_DIRECT
        /\ q.pc = "piping"
        /\ Upd(r, IF q.headersSent THEN q1 ELSE JsonError(q1, 500, "Streaming failed"))
        /\ UNCHANGED <<call, version, proc, now, files, cl, rt>>

-----------------------------------------------------------------------------
(* GET /search *)

\* the handler up to its first await: extractVideoId decides between the
\* info lookup and the text search
Search(r, query) ==
    /\ Listening
    /\ FreeSlot(r)
    /\ LET q0 == [IdleReq EXCEPT !.kind = "search", !.input = query, !.handler = "search"]
       IN  Upd(r, IF MissingParam(query)
                  THEN JsonError(q0, 400, "Query parameter \"q\" is required")
                  ELSE LET videoId == extractVideoId(query)
                       IN  [q0 EXCEPT !.videoId = videoId, !.ext = 1,
                                      !.pc = IF videoId # Null THEN "info" ELSE "ytsr"])
    /\ UNCHANGED <<call, version, proc, now, files, cl, rt>>

\* the info lookup of a direct URL settles
SearchInfo(r, ok) ==
    LET q == reqs[r]
    IN  /\ Alive
        /\ q.kind = "search" /\ q.pc = "info"
        /\ Upd(r, IF ok THEN JsonSuccess(q, <<>>)
                  ELSE CASE version = V_INDEX ->
                                JsonError(q, 500, "Failed to fetch video information")
                         [] version \in {V_DIRECT, V_CACHE} ->
                                [q EXCEPT !.pc = "ytsr", !.ext = @ + 1]
                         [] OTHER -> JsonError(q, 404, "Video unavailable"))
        /\ UNCHANGED <<call, version, proc, now, files, cl, rt>>

\* ytsr / searchVideos settles
SearchDone(r, ok) ==
    LET q == reqs[r]
    IN  /\ Alive
        /\ q.kind = "search" /\ q.pc = "ytsr"
        /\ Upd(r, IF ok THEN JsonSuccess(q, <<>>) ELSE JsonError(q, 500, "Search failed"))
        /\ UNCHANGED <<call, version, proc, now, files, cl, rt>>

-----------------------------------------------------------------------------
(* Time *)

\* a download promise whose timeout (2 or 3 minutes) is running
TimedPending(q) == q.pc = "conv" /\ version \in {V_CACHE, V_RETRY, V_YTDLP}

\* one timer period passes; a due timer callback and the fs callbacks of a
\* run, and a download timeout, do not wait a whole period
Tick(limit) ==
    /\ Alive
    /\ now < limit * CLEANUP_INTERVAL_MS
    /\ version \in TempVersions => ~TimerDue /\ cl.pc = "idle"
    /\ \A r \in Reqs : ~TimedPending(reqs[r])
    /\ now' = now + CLEANUP_INTERVAL_MS
    /\ UNCHANGED <<call, version, proc, files, reqs, cl, rt>>

-----------------------------------------------------------------------------
(* Initial values shared by the specifications *)

RtIdle == [pc |-> "idle", maxRetries |-> 0, baseDelay |-> 0, i |-> 0, calls |-> 0,
           inflight |-> 0, delays |-> <<>>, outcomes |-> <<>>, result |-> ""]

NoCall == [fn |-> "", arg |-> <<>>, pc |-> "idle", result |-> <<>>]

RECURSIVE SeqsUpTo(_, _)
SeqsUpTo(S, n) ==
    IF n = 0 THEN {<<>>}
    ELSE LET shorter == SeqsUpTo(S, n - 1)
         IN  shorter \cup {Append(s, x) : s \in shorter, x \in S}

-----------------------------------------------------------------------------
(* Inputs and initial states of the specifications *)

VideoA == <<"a", "a", "a", "a", "a", "a", "a", "a", "a", "a", "b">>

\* a file a previous run of the server left in the directory
LeftoverName == Mp3Name(VideoA, "h0")

\* the directories the server may find at start: empty, or one leftover file
\* written the given time before the start
Leftovers(ages) == {NoFiles} \cup {(LeftoverName :> File(0 - a, 1, TRUE)) : a \in ages}

StartDirs(v) == Leftovers({0, MaxAge(v) - CLEANUP_INTERVAL_MS})

PlayInputs == {<<>>, <<"a">>, VideoA, <<"youtu.be/">> \o VideoA}
SearchInputs == {<<>>, <<"a">>, VideoA}
StreamNames == {LeftoverName, Mp3Name(VideoA, "h1"), <<".">>, <<".", ".", "/", "a">>}

InitOf(vs) ==
    /\ version \in vs
    /\ proc = ProcStarting(version)
    /\ now = 0
    /\ files \in StartDirs(version)
    /\ reqs = [r \in Reqs |-> IdleReq]
    /\ cl = ClIdle
    /\ rt = RtIdle
    /\ call = NoCall

\* the steps of /play requests in the slots S
PlaySteps(S) ==
    \/ \E r \in S, ok \in BOOLEAN : PlayInfo(r, ok)
    \/ \E r \in S : PlayCachedInfo(r)
    \/ \E r \in S : ConvWrite(r)
    \/ \E r \in S : ConvEnd(r)
    \/ \E r \in S : ConvError(r)
    \/ \E r \in S : ConvTimeout(r)
    \/ \E r \in S : AudioStreamError(r)
    \/ \E r \in S : DlWrite(r)
    \/ \E r \in S : DlPostProcess(r)
    \/ \E r \in S : DlEnd(r)
    \/ \E r \in S : DlError(r)
    \/ \E r \in S : Release(r)

\* the steps of the cleanup timer
CleanupSteps ==
    \/ CleanupFire
    \/ CleanupReaddir
    \/ \E f \in cl.toStat : CleanupStat(f)
    \/ \E f \in cl.toUnlink : CleanupUnlink(f)

-----------------------------------------------------------------------------
(* Spec: one request at a time to every endpoint of every version, with the *)
(* start of the server and the signals                                      *)

Init == InitOf(Versions)

Next ==
    \/ \E ok \in BOOLEAN : StartServer(ok)
    \/ Sigterm
    \/ Sigint
    \/ \E input \in PlayInputs, hex \in HexSuffixes : Play(1, input, hex)
    \/ PlaySteps({1})
    \/ PipeData(1)
    \/ PipeEnd(1)
    \/ PipeError(1)
    \/ \E query \in SearchInputs : Search(1, query)
    \/ \E ok \in BOOLEAN : SearchInfo(1, ok)
    \/ \E ok \in BOOLEAN : SearchDone(1, ok)
    \/ \E name \in StreamNames : Stream(1, name, <<>>)
    \/ ReadStreamError(1)

Spec == Init /\ [][Next]_vars

-----------------------------------------------------------------------------
(* SpecPlay: concurrent /play requests of the versions that save to disk *)

InitPlay == InitOf(TempVersions)

NextPlay ==
    \/ \E ok \in BOOLEAN : StartServer(ok)
    \/ \E r \in Reqs, input \in {<<"a">>, VideoA}, hex \in HexSuffixes : Play(r, input, hex)
    \/ PlaySteps(Reqs)

SpecPlay == InitPlay /\ [][NextPlay]_vars

-----------------------------------------------------------------------------
(* SpecCleanup: the cleanup timer over hours, beside one /play and /stream *)

InitCleanup == InitOf(TempVersions)

NextCleanup ==
    \/ \E ok \in {TRUE} : StartServer(ok)
    \/ Tick(MaxTimeCleanup)
    \/ CleanupSteps
    \/ Play(1, VideoA, "h1")
    \/ PlaySteps({1})
    \/ Stream(1, LeftoverName, <<>>)

SpecCleanup == InitCleanup /\ [][NextCleanup]_vars

-----------------------------------------------------------------------------
(* retryWithBackoff(fn, maxRetries, baseDelay) of the retrying version *)

Undefined == "undefined"
FnValues == {"v1", "v2"}
FnErrors == {"e1", "e2"}
BaseDelays == {1000, 2000}

RECURSIVE Pow2(_)
Pow2(n) == IF n = 0 THEN 1 ELSE 2 * Pow2(n - 1)

\* const delay = baseDelay * Math.pow(2, i)
Delay(baseDelay, i) == baseDelay * Pow2(i)

\* if (i === maxRetries - 1) throw error
IsLastAttempt_OffByOne(i, maxRetries) == i = maxRetries
IsLastAttempt(i, maxRetries) == i = maxRetries - 1

\* the head of the for loop at index i: the next call of fn starts, or the
\* loop is over and the function returns undefined
LoopHead(c, i) ==
    IF i < c.maxRetries
    THEN [c EXCEPT !.pc = "calling", !.i = i, !.calls = @ + 1, !.inflight = @ + 1]
    ELSE [c EXCEPT !.pc = "returned", !.i = i, !.result = Undefined]

RetryWithBackoff(maxRetries, baseDelay) ==
    /\ Alive /\ version = V_RETRY
    /\ rt.pc = "idle"
    /\ rt' = LoopHead([RtIdle EXCEPT !.maxRetries = maxRetries, !.baseDelay = baseDelay], 0)
    /\ UNCHANGED <<call, version, proc, now, files, reqs, cl>>

\* return await fn()
FnResolve(v) ==
    /\ rt.pc = "calling"
    /\ rt' = [rt EXCEPT !.pc = "returned", !.inflight = @ - 1, !.result = v,
                        !.outcomes = Append(@, [ok |-> TRUE, v |-> v])]
    /\ UNCHANGED <<call, version, proc, now, files, reqs, cl>>

\* catch (error): rethrown on the last attempt, else the delay is armed
FnReject(e) ==
    /\ rt.pc = "calling"
    /\ LET c == [rt EXCEPT !.inflight = @ - 1,
                           !.outcomes = Append(@, [ok |-> FALSE, v |-> e])]
       IN  rt' = IF IsLastAttempt(rt.i, rt.maxRetries)
                 THEN [c EXCEPT !.pc = "thrown", !.result = e]
                 ELSE [c EXCEPT !.pc = "waiting",
                                !.delays = Append(@, Delay(rt.baseDelay, rt.i))]
    /\ UNCHANGED <<call, version, proc, now, files, reqs, cl>>

\* the setTimeout of the delay fires and the loop goes on with i + 1
DelayElapsed ==
    /\ rt.pc = "waiting"
    /\ now' = now + rt.delays[Len(rt.delays)]
    /\ rt' = LoopHead(rt, rt.i + 1)
    /\ UNCHANGED <<call, version, proc, files, reqs, cl>>

InitRetry ==
    /\ version = V_RETRY
    /\ proc = ProcListening
    /\ now = 0
    /\ files = NoFiles
    /\ reqs = [r \in Reqs |-> IdleReq]
    /\ cl = ClIdle
    /\ rt = RtIdle
    /\ call = NoCall

NextRetry ==
    \/ \E m \in 0..MaxRetries, d \in BaseDelays : RetryWithBackoff(m, d)
    \/ \E v \in FnValues : FnResolve(v)
    \/ \E e \in FnErrors : FnReject(e)
    \/ DelayElapsed

SpecRetry == InitRetry /\ [][NextRetry]_vars

-----------------------------------------------------------------------------
(* SpecCleanupFair: SpecCleanup where time passes, the callbacks of the timer *)
(* and of fs run, and a started server gets to listen                         *)

SpecCleanupFair ==
    /\ InitCleanup
    /\ [][NextCleanup]_vars
    /\ SF_vars(Tick(MaxTimeCleanup))
    /\ WF_vars(CleanupSteps)
    /\ WF_vars(PlaySteps({1}))
    /\ WF_vars(StartServer(TRUE))

-----------------------------------------------------------------------------
(* SpecExtract: extractVideoId applied to ids, URLs and near misses *)

\* a character outside [a-zA-Z0-9_-]
Junk == "!"

IdB == <<"a", "_", "-", "0", "9", "b", "c", "a", "a", "a", "b">>

\* 10, 11 and 12 characters of the class, and 11 with one outside it
ExtractBodies ==
    {SubSeq(VideoA, 1, 10), VideoA, IdB, VideoA \o <<"c">>,
     SubSeq(VideoA, 1, 5) \o <<Junk>> \o SubSeq(VideoA, 7, 11)}

ExtractUrls ==
    {<<>>, <<"youtube.com/watch?v=">>, <<"youtu.be/">>, <<"youtube.com/embed/">>,
     <<"music.", "youtube.com/watch?v=">>, <<"m.", "youtube.com/watch?v=">>,
     <<"youtube.com/v/">>, <<"youtube.com/shorts/">>}

Affixes == SeqsUpTo({Junk, "a"}, MaxAffix)

ExtractInputs ==
    {pre \o url \o body \o suf :
        pre \in Affixes, url \in ExtractUrls, body \in ExtractBodies, suf \in Affixes}

InitExtract ==
    /\ version \in Versions
    /\ proc = ProcListening
    /\ now = 0
    /\ files = NoFiles
    /\ reqs = [r \in Reqs |-> IdleReq]
    /\ cl = ClIdle
    /\ rt = RtIdle
    /\ \E input \in ExtractInputs :
           call = [fn |-> "extractVideoId", arg |-> input, pc |-> "called", result |-> Null]

ExtractReturn ==
    /\ call.fn = "extractVideoId" /\ call.pc = "called"
    /\ call' = [call EXCEPT !.pc = "returned", !.result = extractVideoId(call.arg)]
    /\ UNCHANGED <<version, proc, now, files, reqs, cl, rt>>

NextExtract == ExtractReturn

SpecExtract == InitExtract /\ [][NextExtract]_vars

-----------------------------------------------------------------------------
(* SpecStream: the stream handler over many file names and Range headers *)

StreamFile == Mp3Name(<<"a">>, "h1")
StreamDirs == {NoFiles} \cup {(StreamFile :> File(0, sz, TRUE)) : sz \in 0..MaxSize}

NameChars == {"a", ".", "/", "\\"}
ArbitraryNames == SeqsUpTo(NameChars, MaxNameLen) \ {<<>>}

RangeChars == {"0", "1", "2", "-", "x"}
RangeBodies == SeqsUpTo(RangeChars, MaxRangeLen)
RangeHeaders == RangeBodies \cup {<<"bytes=">> \o b : b \in RangeBodies}
FewRanges == {<<>>, <<"bytes=", "0", "-", "1">>, <<"bytes=", "1", "-">>}

StreamInputs ==
    ((ArbitraryNames \cup {StreamFile}) \X FewRanges)
        \cup ({StreamFile} \X RangeHeaders)

InitStream ==
    /\ version \in TempVersions
    /\ proc = ProcListening
    /\ now = 0
    /\ files \in StreamDirs
    /\ reqs = [r \in Reqs |-> IdleReq]
    /\ cl = ClIdle
    /\ rt = RtIdle
    /\ call = NoCall

NextStream ==
    \/ \E in \in StreamInputs : Stream(1, in[1], in[2])
    \/ ReadStreamError(1)
    \/ Release(1)

SpecStream == InitStream /\ [][NextStream]_vars

-----------------------------------------------------------------------------
(* Claims about /stream *)

DigitTok(d) == CHOOSE t \in Digits : DigitVal(t) = d

\* the decimal numeral of n < 100
Dec(n) == IF n < 10 THEN <<DigitTok(n)>> ELSE <<DigitTok(n \div 10), DigitTok(n % 10)>>

\* the header "bytes=S-E"
BytesRange(S, E) == <<"bytes=">> \o Dec(S) \o <<"-">> \o Dec(E)

RangeNums == 0..(10 * MaxSize - 1)

\* every <<S, E, "bytes=S-E">>
BytesRanges == {<<S, E, BytesRange(S, E)>> : S \in RangeNums, E \in RangeNums}

\* a finished /stream request for a file the directory holds
StreamedExisting(q) ==
    /\ q.kind = "stream" /\ q.pc = "done" /\ q.handler = "stream"
    /\ q.input \in DOMAIN files

FullResponseOk(q) ==
    /\ q.status = 200
    /\ q.head.contentLength = files[q.input].size
    /\ q.head.acceptRanges = "bytes"
    /\ q.head.contentType = "audio/mpeg"

PartialResponseOk(q, S, E) ==
    /\ q.status = 206
    /\ q.head.contentRange = <<S, E, files[q.input].size>>
    /\ q.head.contentLength = E - S + 1
    /\ q.head.acceptRanges = "bytes"
    /\ q.head.contentType = "audio/mpeg"

\* C1 as stated: for an existing file, every header "bytes=S-E" is answered
\* 206 with Content-Range "bytes S-E/fileSize" and Content-Length E-S+1, and a
\* request without Range is answered 200 with Content-Length fileSize; both
\* with Accept-Ranges: bytes and Content-Type: audio/mpeg.
C1_AsStated ==
    \A r \in Reqs :
        StreamedExisting(reqs[r]) =>
            /\ reqs[r].range = <<>> => FullResponseOk(reqs[r])
            /\ \A b \in BytesRanges :
                   reqs[r].range = b[3] => PartialResponseOk(reqs[r], b[1], b[2])

\* C1, amended: the same for every header "bytes=S-E" with S <= E; a header
\* with S > E makes fs.createReadStream throw, and the answer is 500.
C1_RangeResponse ==
    \A r \in Reqs :
        StreamedExisting(reqs[r]) =>
            /\ reqs[r].range = <<>> => FullResponseOk(reqs[r])
            /\ \A b \in BytesRanges :
                   reqs[r].range = b[3] =>
                       IF b[1] <= b[2] THEN PartialResponseOk(reqs[r], b[1], b[2])
                       ELSE reqs[r].status = 500 /\ reqs[r].head = NoHead

C1_Witness ==
    \E r \in Reqs :
        /\ StreamedExisting(reqs[r])
        /\ reqs[r].range = BytesRange(1, 2)
        /\ files[reqs[r].input].size = 3
        /\ reqs[r].status = 206
        /\ reqs[r].head.contentLength = 2

\* C2: a /stream request whose filename contains "..", "/" or "\" is answered
\* 400 'Invalid filename' and touches no path; every path the handler touches
\* lies in the temp directory and every path it reads bytes from is a direct
\* child of the temp directory.
C2_TraversalRejected ==
    \A r \in Reqs :
        LET q == reqs[r]
        IN  (q.kind = "stream" /\ q.pc = "done" /\ q.handler = "stream") =>
                /\ (\/ \E i \in 1..(Len(q.input) - 1) : q.input[i] = "." /\ q.input[i + 1] = "."
                    \/ \E i \in 1..Len(q.input) : q.input[i] \in {"/", "\\"})
                       => (q.status = 400 /\ q.error = "Invalid filename"
                           /\ q.accessed = {} /\ q.readFrom = {} /\ q.pipe = "none")
                /\ \A p \in q.accessed : p.up = 0 /\ Len(p.segs) <= 1
                /\ \A p \in q.readFrom : p.up = 0 /\ Len(p.segs) = 1

C2_Witness ==
    \E r \in Reqs :
        /\ reqs[r].kind = "stream" /\ reqs[r].pc = "done"
        /\ reqs[r].input = <<".", ".", "/">>
        /\ reqs[r].status = 400
        /\ files # NoFiles

\* C9 as stated: a /stream request whose filename passes the traversal check
\* and names no file of the temp directory is answered 404 and streams nothing.
C9_AsStated ==
    \A r \in Reqs :
        LET q == reqs[r]
        IN  (/\ q.kind = "stream" /\ q.pc = "done" /\ q.handler = "stream"
             /\ ~(\E i \in 1..(Len(q.input) - 1) : q.input[i] = "." /\ q.input[i + 1] = ".")
             /\ ~(\E i \in 1..Len(q.input) : q.input[i] \in {"/", "\\"})
             /\ q.input \notin DOMAIN files)
                => (q.status = 404 /\ q.pipe = "none" /\ q.readFrom = {})

-----------------------------------------------------------------------------
(* Claims about the endpoints, /play and the signals *)

\* C3 as stated: every version registers handlers for /search, /play and
\* /stream/:filename, so every request to an endpoint the root endpoint
\* advertises is answered by that endpoint's handler.
C3_AsStated ==
    \A r \in Reqs :
        (reqs[r].pc = "done" /\ reqs[r].kind \in {"search", "play", "stream"}) =>
            /\ reqs[r].handler = reqs[r].kind
            /\ {"search", "play", "stream"} \subseteq Routes(version)
            /\ Advertised(version) \subseteq Routes(version)

\* C4: in the caching versions a /play request that finds a file whose name
\* starts with its id answers success with the URL of one of the files it
\* found, starts no download or conversion and creates no file.
C4_CacheHit ==
    \A r \in Reqs :
        LET q == reqs[r]
        IN  (q.kind = "play" /\ version \in CachingVersions /\ q.matches # {}) =>
                /\ q.pc \in {"cachedInfo", "done"}
                /\ q.url \in q.matches
                /\ \A f \in q.matches : SubSeq(f, 1, Len(q.videoId)) = q.videoId
                /\ q.pc = "done" => (q.status = 200 /\ q.success)
                /\ q.downloads = 0 /\ q.conv = "none"
                /\ q.filename = <<>> /\ q.created = {}

C4_Witness ==
    \E r \in Reqs :
        /\ version = V_YTDLP
        /\ reqs[r].kind = "play" /\ reqs[r].pc = "done"
        /\ reqs[r].matches # {} /\ reqs[r].status = 200
        /\ reqs[r].url = VideoA \o <<"_", "h1", ".", "m", "p", "3">>

\* C8: /search without q, /play without id and (yt-dlp version) /play with an
\* id from which extractVideoId extracts nothing are answered 400 with no
\* external call made, no download started and no file created or deleted.
C8_RejectedEarly ==
    \A r \in Reqs :
        LET q == reqs[r]
        IN  (/\ q.kind \in {"search", "play"}
             /\ \/ q.input = <<>>
                \/ version = V_YTDLP /\ q.kind = "play" /\ extractVideoId(q.input) = Null)
                => /\ q.pc = "done" /\ q.status = 400 /\ ~q.success
                   /\ q.ext = 0 /\ q.downloads = 0 /\ q.conv = "none"
                   /\ q.created = {} /\ q.deleted = {} /\ q.filename = <<>>

C8_Witness ==
    \E r \in Reqs :
        /\ version = V_YTDLP /\ DOMAIN files # {}
        /\ reqs[r].kind = "play" /\ reqs[r].input = <<"a">>
        /\ reqs[r].status = 400 /\ reqs[r].error = "Invalid video ID or URL"

\* C10 as stated: on SIGTERM the server of src/index.js closes the HTTP
\* server, removes every file of the temp directory and exits with status 0.
C10_AsStated ==
    (version = V_INDEX /\ proc.state = "exited" /\ proc.cause = "SIGTERM") =>
        (proc.serverClosed /\ DOMAIN files = {} /\ proc.exitCode = 0)

-----------------------------------------------------------------------------
(* Claims about the cleanup timer *)

\* the threshold the claims name: 1 hour in src/index.js, 2 hours later
ClaimedAge == IF version = V_INDEX THEN ONE_HOUR_MS ELSE TWO_HOURS_MS

\* C5 as stated: a file the cleanup timer deletes has a modification time more
\* than the threshold before the start of the run; a younger file is never
\* deleted by the timer.
C5_AsStated ==
    cl.last # <<>> => cl.runNow - cl.last[2] > ClaimedAge

\* when a run of the timer is over, every file that was in the directory at
\* its start with an age above the threshold, and has not been modified since,
\* is gone
RemovedByRun ==
    (cl.pc = "idle" /\ cl.runs > 0 /\ Alive) =>
        \A n \in DOMAIN cl.snap :
            cl.runNow - cl.snap[n] > ClaimedAge =>
                (n \notin DOMAIN files \/ files[n].mtime # cl.snap[n])

\* C6: while the server runs and the timer fires, a file that is not modified
\* again is removed by the first run that starts after its age exceeds the
\* threshold, and so is eventually deleted.
C6_EventuallyDeleted ==
    /\ []RemovedByRun
    /\ (LeftoverName \in DOMAIN files) ~> (LeftoverName \notin DOMAIN files)

C6_Witness ==
    /\ Alive /\ cl.pc = "idle" /\ cl.runs > 0
    /\ LeftoverName \notin DOMAIN files
    /\ cl.last # <<>> /\ cl.last[1] = LeftoverName
    /\ cl.runNow - cl.last[2] > ClaimedAge
    /\ cl.runNow - cl.last[2] <= ClaimedAge + CLEANUP_INTERVAL_MS

-----------------------------------------------------------------------------
(* Claims about retryWithBackoff *)

Failed(k) == ~rt.outcomes[k].ok

\* C7: with maxRetries >= 1, fn is called at most maxRetries times and one
\* call at a time; the value of the first successful call is returned and no
\* call follows it; when all maxRetries calls fail the last error is thrown.
C7_RetryWithBackoff ==
    LET n == Len(rt.outcomes)
    IN  (rt.pc # "idle" /\ rt.maxRetries >= 1) =>
            /\ rt.calls <= rt.maxRetries
            /\ rt.inflight \in {0, 1}
            /\ rt.calls = n + rt.inflight
            /\ rt.pc = "calling" <=> rt.inflight = 1
            /\ \A k \in 1..n : rt.outcomes[k].ok => (k = n /\ rt.pc = "returned")
            /\ rt.pc = "returned" =>
                   (n >= 1 /\ rt.outcomes[n].ok /\ rt.result = rt.outcomes[n].v)
            /\ rt.pc = "thrown" =>
                   (n = rt.maxRetries /\ rt.result = rt.outcomes[n].v)
            /\ (n = rt.maxRetries /\ \A k \in 1..n : Failed(k)) => rt.pc = "thrown"
            /\ rt.pc = "waiting" => (n < rt.maxRetries /\ Len(rt.delays) = n)

C7_Witness ==
    /\ rt.pc = "thrown" /\ rt.maxRetries = 3 /\ rt.calls = 3
    /\ rt.delays = <<2000, 4000>>
    /\ rt.outcomes[1].v = "e1" /\ rt.result = "e2"

-----------------------------------------------------------------------------
(* Claims about the start of the yt-dlp version *)

\* no request is being served
NoneServed == \A r \in Reqs : reqs[r].pc = "idle"

\* C11: the yt-dlp version listens, and serves requests, only after checkYtDlp
\* has found yt-dlp; when the check fails the process exits with status 1 and
\* nothing happens in it afterwards.
C11_ListenAfterCheck ==
    /\ [](version = V_YTDLP =>
            /\ proc.state = "checking" => (proc.ytdlpInstalled = "unchecked" /\ NoneServed)
            /\ proc.state = "listening" => proc.ytdlpInstalled = "true"
            /\ ~NoneServed => (proc.state = "listening" /\ proc.ytdlpInstalled = "true")
            /\ proc.ytdlpInstalled = "false" =>
                   (proc.state = "exited" /\ proc.exitCode = 1 /\ NoneServed))
    /\ [][(version = V_YTDLP /\ proc.ytdlpInstalled = "false") =>
              (proc' = proc /\ reqs' = reqs /\ files' = files)]_vars

C11_Witness ==
    /\ version = V_YTDLP /\ proc.ytdlpInstalled = "true"
    /\ \E r \in Reqs : reqs[r].kind = "play" /\ reqs[r].pc = "done" /\ reqs[r].status = 200

-----------------------------------------------------------------------------
(* Claims about /play of the direct-streaming version *)

\* C12: /play of part_000 streams to the response and saves nothing: no step
\* of the server creates, modifies or deletes a file, and no request has a
\* filename or a file of its own.
C12_NoFilesTouched ==
    /\ [](version = V_DIRECT =>
            \A r \in Reqs : /\ reqs[r].created = {} /\ reqs[r].deleted = {}
                            /\ reqs[r].filename = <<>> /\ reqs[r].readFrom = {})
    /\ [][version = V_DIRECT => files' = files]_vars

C12_Witness ==
    /\ version = V_DIRECT /\ LeftoverName \in DOMAIN files
    /\ \E r \in Reqs : /\ reqs[r].kind = "play" /\ reqs[r].pc = "done"
                       /\ reqs[r].status = 200 /\ reqs[r].headersSent
                       /\ reqs[r].downloads = 1

-----------------------------------------------------------------------------
(* Claims about the ranges /stream serves *)

\* C13 as stated: every 206 answer of /stream names a range of the file,
\* 0 <= start <= end <= fileSize - 1, with Content-Length from 1 to fileSize.
C13_AsStated ==
    \A r \in Reqs :
        LET q == reqs[r]
        IN  (q.kind = "stream" /\ q.pc = "done" /\ q.status = 206 /\ q.pipe = "file") =>
                LET start    == q.head.contentRange[1]
                    end      == q.head.contentRange[2]
                    fileSize == files[q.input].size
                IN  /\ q.head.contentRange[3] = fileSize
                    /\ 0 <= start /\ start <= end /\ end <= fileSize - 1
                    /\ 1 <= q.head.contentLength /\ q.head.contentLength <= fileSize

-----------------------------------------------------------------------------
(* Claims about concurrent /play requests *)

\* a /play request of a caching version that was answered from the cache
FromCache(q) ==
    /\ q.kind = "play" /\ version \in CachingVersions
    /\ q.matches # {} /\ q.url # <<>>

\* C14 as stated: a URL returned from the cache names a completely converted
\* audio file, never a file an in-flight request is still writing nor an
\* intermediate file of a download.
C14_AsStated ==
    \A r \in Reqs :
        FromCache(reqs[r]) =>
            /\ reqs[r].url \in DOMAIN files => files[reqs[r].url].complete
            /\ \A o \in Reqs \ {r} :
                   reqs[o].conv = "running" => reqs[r].url \notin OutputNames(reqs[o])

\* a /play request whose download or conversion is in progress
Downloading(q) == q.kind = "play" /\ q.conv = "running"

\* the files of the temp directory that the cache check takes for `videoId`
FilesOf(videoId) == {f \in DOMAIN files : StartsWith(f, videoId)}

\* C15 as stated: in the caching versions at most one download or conversion
\* per video id is in progress at any time, and the temp directory never
\* holds more than one file for an id.
C15_AsStated ==
    version \in CachingVersions =>
        /\ \A r, o \in Reqs :
               (r # o /\ Downloading(reqs[r]) /\ Downloading(reqs[o]))
                   => reqs[r].videoId # reqs[o].videoId
        /\ \A r \in Reqs :
               (reqs[r].kind = "play" /\ Len(reqs[r].videoId) = VIDEO_ID_LEN)
                   => Cardinality(FilesOf(reqs[r].videoId)) <= 1

-----------------------------------------------------------------------------
(* Claims about failed downloads *)

\* the files of the directory that the attempt of q has made
LeftBy(q) ==
    IF version = V_YTDLP
    THEN {f \in DOMAIN files : StartsWith(f, q.filename)}
    ELSE {q.filename} \cap DOMAIN files

\* C16 as stated: once /play has answered 500 'Download failed', no file of
\* that attempt is in the temp directory, then or later.
C16_AsStated ==
    \A r \in Reqs :
        LET q == reqs[r]
        IN  (/\ q.kind = "play" /\ q.pc = "done" /\ q.filename # <<>>
             /\ q.status = 500 /\ q.error = "Download failed")
                => LeftBy(q) = {}

-----------------------------------------------------------------------------
(* formatDuration(seconds) and SpecFormat, which applies it to 0..MaxSeconds *)

\* Number.prototype.toString() of an integer n >= 0
RECURSIVE NumToString(_)
NumToString(n) ==
    IF n < 10 THEN <<DigitTok(n)>>
    ELSE NumToString(n \div 10) \o <<DigitTok(n % 10)>>

\* String.prototype.padStart(2, '0')
PadStart2_None(str) == str
PadStart2(str) == IF Len(str) >= 2 THEN str ELSE <<"0">> \o str

formatDuration(seconds) ==
    LET hrs  == seconds \div 3600
        mins == (seconds % 3600) \div 60
        secs == seconds % 60
    IN  IF hrs > 0
        THEN NumToString(hrs) \o <<":">> \o PadStart2(NumToString(mins))
                 \o <<":">> \o PadStart2(NumToString(secs))
        ELSE NumToString(mins) \o <<":">> \o PadStart2(NumToString(secs))

InitFormat ==
    /\ version = V_INDEX
    /\ proc = ProcListening
    /\ now = 0
    /\ files = NoFiles
    /\ reqs = [r \in Reqs |-> IdleReq]
    /\ cl = ClIdle
    /\ rt = RtIdle
    /\ \E seconds \in 0..MaxSeconds :
           call = [fn |-> "formatDuration", arg |-> seconds, pc |-> "called",
                   result |-> <<>>]

FormatReturn ==
    /\ call.fn = "formatDuration" /\ call.pc = "called"
    /\ call' = [call EXCEPT !.pc = "returned", !.result = formatDuration(call.arg)]
    /\ UNCHANGED <<version, proc, now, files, reqs, cl, rt>>

NextFormat == FormatReturn

SpecFormat == InitFormat /\ [][NextFormat]_vars

-----------------------------------------------------------------------------
(* Claims about the helper functions *)

IsId(s) == Len(s) = 11 /\ \A i \in 1..11 : s[i] \in IdChars

\* the URL prefixes a version recognises
Recognised ==
    {<<"youtube.com/watch?v=">>, <<"youtu.be/">>, <<"youtube.com/embed/">>}
        \cup IF version = V_INDEX THEN {}
             ELSE {<<"youtube.com/v/">>, <<"youtube.com/shorts/">>}

\* s contains a recognised prefix followed by 11 characters of the class
HasUrlId(s) ==
    \E pre \in Recognised :
        \E i \in 1..Len(s) :
            /\ i + 11 <= Len(s)
            /\ s[i] = pre[1]
            /\ IsId(SubSeq(s, i + 1, i + 11))

\* C17: extractVideoId returns null or 11 characters of [A-Za-z0-9_-] that
\* occur in the input; an input that is such an id comes back unchanged; an
\* input that neither is one nor holds a recognised URL prefix followed by 11
\* such characters yields null.
C17_ExtractVideoId ==
    (call.fn = "extractVideoId" /\ call.pc = "returned") =>
        /\ call.result = Null
               \/ /\ IsId(call.result)
                  /\ \E i \in 1..Len(call.arg) :
                         /\ i + 10 <= Len(call.arg)
                         /\ SubSeq(call.arg, i, i + 10) = call.result
        /\ IsId(call.arg) => call.result = call.arg
        /\ (~IsId(call.arg) /\ ~HasUrlId(call.arg)) => call.result = Null

C17_Witness ==
    /\ version = V_YTDLP /\ call.pc = "returned"
    /\ call.arg = <<Junk, "youtube.com/shorts/">> \o IdB \o <<"a">>
    /\ call.result = IdB

\* a field of a formatted duration: decimal digits, and its value
IsField(f) == f # <<>> /\ \A i \in 1..Len(f) : f[i] \in Digits
FieldValue(f) == DigitsValue(f, 0)
TwoDigitsBelow60(f) == IsField(f) /\ Len(f) = 2 /\ FieldValue(f) < 60
Unpadded(f) == IsField(f) /\ (Len(f) = 1 \/ f[1] # "0")

\* C18: for s >= 0 formatDuration(s) is M:SS below one hour and H:MM:SS from
\* one hour on, the padded fields two digits below 60, and the fields read
\* back as hours*3600 + minutes*60 + seconds give s.
C18_FormatDuration ==
    (call.fn = "formatDuration" /\ call.pc = "returned") =>
        LET s == call.arg
            parts == Split(call.result, ":")
        IN  IF s < 3600
            THEN /\ Len(parts) = 2
                 /\ Unpadded(parts[1]) /\ TwoDigitsBelow60(parts[2])
                 /\ FieldValue(parts[1]) * 60 + FieldValue(parts[2]) = s
            ELSE /\ Len(parts) = 3
                 /\ Unpadded(parts[1])
                 /\ TwoDigitsBelow60(parts[2]) /\ TwoDigitsBelow60(parts[3])
                 /\ FieldValue(parts[1]) * 3600 + FieldValue(parts[2]) * 60
                        + FieldValue(parts[3]) = s

C18_Witness ==
    /\ call.fn = "formatDuration" /\ call.pc = "returned"
    /\ call.arg = 3725
    /\ call.result = <<"1", ":", "0", "2", ":", "0", "5">>

====
